---- MODULE Spec2Model ----
(***************************************************************************)
(* Model of datafusion/physical-expr/src/analysis.rs: building an          *)
(* AnalysisContext from column statistics and analysing a predicate        *)
(* against it (boundary refinement and selectivity).                       *)
(*                                                                         *)
(* The interval engine (ExprIntervalGraph, cardinality_ratio) and          *)
(* collect_columns live outside analysis.rs.  They are modelled from their *)
(* documented contract: the graph is a black box whose outcome is chosen   *)
(* nondeterministically among the outcomes the contract allows.            *)
(*                                                                         *)
(* f64 selectivities are modelled as exact non-negative rationals in       *)
(* lowest terms.                                                           *)
(***************************************************************************)
EXTENDS Integers, Sequences, FiniteSets

VARIABLES
    pc,          \* "start" | "built" | "analyzed"
    schema,      \* input_schema: sequence of fields [name, data_type]
    statistics,  \* statistics: sequence of ColumnStatistics
    expr,        \* the predicate handed to analyze
    built,       \* Result<AnalysisContext> of try_from_statistics
    engine,      \* what the interval engine answered during analyze
    analyzed     \* Result<AnalysisContext> of analyze

vars == <<pc, schema, statistics, expr, built, engine, analyzed>>

----------------------------------------------------------------------------
(* Bounds of the model *)

\* largest number of schema columns / statistics entries
MaxCols == 2

\* column values range over 0..MaxVal
MaxVal == 1

\* field name of the column at each ordinal (0-based ordinal i is Names[i+1])
Names == <<"a", "b", "c", "d", "e">>

Values == 0..MaxVal

----------------------------------------------------------------------------
(* Scalars, precision, intervals *)

\* ScalarValue::Int32(Some(v)) / ScalarValue::Int32(None)
Int32(v) == [type |-> "Int32", some |-> TRUE, v |-> v]
Int32None == [type |-> "Int32", some |-> FALSE, v |-> 0]

\* ScalarValue::Utf8(None)
Utf8None == [type |-> "Utf8", some |-> FALSE, v |-> 0]

\* ScalarValue::Boolean(Some(b)), b as 0 / 1
Boolean(b) == [type |-> "Boolean", some |-> TRUE, v |-> b]

\* Precision<T>
Exact(v) == [tag |-> "Exact", v |-> v]
Inexact(v) == [tag |-> "Inexact", v |-> v]
Absent == [tag |-> "Absent"]

\* Result<T>
Ok(x) == [ok |-> TRUE, val |-> x, err |-> "none"]
Err(kind) == [ok |-> FALSE, val |-> <<>>, err |-> kind]

\* Precision::get_value: Some(&v) for Exact / Inexact, None for Absent
get_value(p) == IF p.tag = "Absent" THEN <<>> ELSE <<p.v>>

\* Option::unwrap_or
unwrap_or(opt, default) == IF opt = <<>> THEN default ELSE opt[1]

\* IntervalBound::new_closed
new_closed(value) == [value |-> value, open |-> FALSE]

\* Interval::new
Interval_new(lower, upper) == [lower |-> lower, upper |-> upper]

\* Column::new
Column_new(name, index) == [kind |-> "Column", name |-> name, index |-> index]

\* expr.as_any().downcast_ref::<Column>()
downcast_ref_Column(e) == IF e.kind = "Column" THEN <<e>> ELSE <<>>

----------------------------------------------------------------------------
(* Selectivities: f64 values as exact rationals in lowest terms *)

RECURSIVE GCD(_, _)
GCD(a, b) == IF b = 0 THEN a ELSE GCD(b, a % b)

Frac(n, d) == LET g == GCD(n, d) IN [num |-> n \div g, den |-> d \div g]

\* f64 literals 1.0 and 0.0
One == [num |-> 1, den |-> 1]
Zero == [num |-> 0, den |-> 1]

\* acc * temp
FMul(x, y) == Frac(x.num * y.num, x.den * y.den)

\* x <= y
FLeq(x, y) == x.num * y.den <= y.num * x.den

----------------------------------------------------------------------------
(* AnalysisContext and ExprBoundaries *)

\* AnalysisContext::new: selectivity starts as None
new(boundaries) == [boundaries |-> boundaries, selectivity |-> <<>>]

\* AnalysisContext::with_selectivity
with_selectivity(self, selectivity) == [self EXCEPT !.selectivity = <<selectivity>>]

\* ScalarValue::try_from(&DataType): the typed null of the data type, or a
\* conversion error for a data type that has no scalar
ScalarValue_try_from(data_type) ==
    IF data_type = "Int32" THEN Ok(Int32None)
    ELSE IF data_type = "Utf8" THEN Ok(Utf8None)
    ELSE Err("type conversion")

\* try_from_column numbering its column from 1 instead of col_index
try_from_column_index_off_by_one(input_schema, col_stats, col_index) ==
    IF col_index >= Len(input_schema) THEN Err("panic: index out of bounds")
    ELSE
    LET field == input_schema[col_index + 1]
        empty == ScalarValue_try_from(field.data_type)
    IN  IF ~empty.ok THEN Err(empty.err)
        ELSE
        LET empty_field == empty.val
            interval == Interval_new(
                new_closed(unwrap_or(get_value(col_stats.min_value), empty_field)),
                new_closed(unwrap_or(get_value(col_stats.max_value), empty_field)))
            column == Column_new(field.name, col_index + 1)
        IN  Ok([column |-> column,
                interval |-> interval,
                distinct_count |-> col_stats.distinct_count])

\* try_from_column building the upper bound from min_value too
try_from_column_upper_from_min(input_schema, col_stats, col_index) ==
    IF col_index >= Len(input_schema) THEN Err("panic: index out of bounds")
    ELSE
    LET field == input_schema[col_index + 1]
        empty == ScalarValue_try_from(field.data_type)
    IN  IF ~empty.ok THEN Err(empty.err)
        ELSE
        LET empty_field == empty.val
            interval == Interval_new(
                new_closed(unwrap_or(get_value(col_stats.min_value), empty_field)),
                new_closed(unwrap_or(get_value(col_stats.min_value), empty_field)))
            column == Column_new(field.name, col_index)
        IN  Ok([column |-> column,
                interval |-> interval,
                distinct_count |-> col_stats.distinct_count])

\* ExprBoundaries::try_from_column
try_from_column(input_schema, col_stats, col_index) ==
    IF col_index >= Len(input_schema) THEN Err("panic: index out of bounds")
    ELSE
    LET field == input_schema[col_index + 1]
        empty == ScalarValue_try_from(field.data_type)
    IN  IF ~empty.ok THEN Err(empty.err)
        ELSE
        LET empty_field == empty.val
            interval == Interval_new(
                new_closed(unwrap_or(get_value(col_stats.min_value), empty_field)),
                new_closed(unwrap_or(get_value(col_stats.max_value), empty_field)))
            column == Column_new(field.name, col_index)
        IN  Ok([column |-> column,
                interval |-> interval,
                distinct_count |-> col_stats.distinct_count])

\* .map(..).collect::<Result<Vec<_>>>(): the boundaries of statistics[from..],
\* or the first error met
RECURSIVE CollectBoundaries(_, _, _)
CollectBoundaries(input_schema, stats, idx) ==
    IF idx >= Len(stats) THEN Ok(<<>>)
    ELSE
    LET b == try_from_column(input_schema, stats[idx + 1], idx)
    IN  IF ~b.ok THEN Err(b.err)
        ELSE
        LET rest == CollectBoundaries(input_schema, stats, idx + 1)
        IN  IF ~rest.ok THEN Err(rest.err) ELSE Ok(<<b.val>> \o rest.val)

\* AnalysisContext::try_from_statistics
try_from_statistics(input_schema, stats) ==
    LET collected == CollectBoundaries(input_schema, stats, 0)
    IN  IF ~collected.ok THEN Err(collected.err) ELSE Ok(new(collected.val))

----------------------------------------------------------------------------
(* The interval engine: ExprIntervalGraph, collect_columns,                *)
(* cardinality_ratio.  A predicate is [kind |-> "Predicate", columns |-> c]*)
(* with c the column references in the order collect_columns yields them.  *)
(* A graph is [nodes |-> n]: node index i is n[i + 1] = [expr, interval].  *)

\* Interval of a column node nothing is known about
UnboundedInt == Interval_new(new_closed(Int32None), new_closed(Int32None))

\* Interval of a boolean node nothing is known about: [false, true]
UncertainBool == Interval_new(new_closed(Boolean(0)), new_closed(Boolean(1)))

\* the root node's expression in a graph that lost track of the predicate
Orphan == [kind |-> "Orphan"]

\* collect_columns: the distinct column references of the predicate
collect_columns(e) == e.columns

\* ExprIntervalGraph::try_new: one node per sub-expression, the root first.
\* outcome is the engine's part: "Ok", "Err" (construction fails) or
\* "Defective" (a graph whose root is not the predicate)
try_new(e, outcome) ==
    IF outcome = "Err" THEN Err("graph construction")
    ELSE Ok([nodes |->
            <<[expr |-> IF outcome = "Ok" THEN e ELSE Orphan,
               interval |-> UncertainBool]>>
            \o [j \in 1..Len(e.columns) |->
                    [expr |-> e.columns[j], interval |-> UnboundedInt]]])

\* node index of expression e in the graph, as a 0- or 1-element sequence
NodeIndex(g, e) ==
    LET S == {n \in 1..Len(g.nodes) : g.nodes[n].expr = e}
    IN  IF S = {} THEN <<>> ELSE <<(CHOOSE n \in S : \A m \in S : n <= m) - 1>>

\* ExprIntervalGraph::gather_node_indices: (expression, node index) for every
\* expression that is a node of the graph, in the order of exprs
RECURSIVE gather_node_indices(_, _)
gather_node_indices(g, exprs) ==
    IF exprs = <<>> THEN <<>>
    ELSE
    LET i == NodeIndex(g, Head(exprs))
    IN  (IF i = <<>> THEN <<>> ELSE <<[expr |-> Head(exprs), index |-> i[1]]>>)
        \o gather_node_indices(g, Tail(exprs))

\* ExprIntervalGraph::get_interval: a pure read
get_interval(g, index) == g.nodes[index + 1].interval

\* the graph with the seed intervals assigned to their nodes
RECURSIVE Seeded(_, _)
Seeded(g, seeds) ==
    IF seeds = <<>> THEN g
    ELSE Seeded([g EXCEPT !.nodes[Head(seeds).index + 1].interval = Head(seeds).interval],
                Tail(seeds))

\* ExprIntervalGraph::update_ranges: seeds the nodes and propagates.  choice
\* is the engine's part: [result, intervals], the result it reports and, on
\* Success, the interval it leaves on every node
update_ranges(g, seeds, choice) ==
    IF choice.result = "Err" THEN Err("propagation")
    ELSE Ok([result |-> choice.result,
             graph |-> IF choice.result = "Success"
                       THEN [nodes |-> [n \in 1..Len(g.nodes) |->
                                [expr |-> g.nodes[n].expr, interval |-> choice.intervals[n]]]]
                       ELSE Seeded(g, seeds)])

\* an interval whose bounds cross
Malformed(iv) ==
    /\ iv.lower.value.some /\ iv.upper.value.some
    /\ iv.lower.value.v > iv.upper.value.v

\* Interval::cardinality: number of values, None when a bound is unknown
cardinality(iv) ==
    IF iv.lower.value.some /\ iv.upper.value.some
    THEN <<iv.upper.value.v - iv.lower.value.v + 1
           - (IF iv.lower.open THEN 1 ELSE 0) - (IF iv.upper.open THEN 1 ELSE 0)>>
    ELSE <<>>

\* cardinality_ratio: value count of the final interval over that of the
\* initial one, within [0, 1]; 1 for an unchanged interval and when a count
\* is unknown; an error for a pair that cannot be compared
cardinality_ratio(initial_interval, final_interval) ==
    IF \/ Malformed(initial_interval) \/ Malformed(final_interval)
       \/ initial_interval.lower.value.type # "Int32"
       \/ final_interval.lower.value.type # "Int32"
    THEN Err("cardinality")
    ELSE
    LET ci == cardinality(initial_interval)
        cf == cardinality(final_interval)
    IN  IF final_interval = initial_interval \/ ci = <<>> \/ cf = <<>> THEN Ok(One)
        ELSE IF cf[1] >= ci[1] THEN Ok(One)
        ELSE Ok(Frac(cf[1], ci[1]))

----------------------------------------------------------------------------
(* analyze, shrink_boundaries, calculate_selectivity *)

\* find comparing the column names only
FindBound_by_name(target_boundaries, column) ==
    LET S == {k \in 1..Len(target_boundaries) :
                target_boundaries[k].column.name = column.name}
    IN  IF S = {} THEN 0 ELSE CHOOSE k \in S : \A j \in S : k <= j

\* target_boundaries.iter().find(|bound| bound.column.eq(column)): position
\* of the first boundary of that column, 0 when there is none
FindBound(target_boundaries, column) ==
    LET S == {k \in 1..Len(target_boundaries) : target_boundaries[k].column = column}
    IN  IF S = {} THEN 0 ELSE CHOOSE k \in S : \A j \in S : k <= j

\* analyze's filter_map: (node index, current interval) for every column
\* node that has a boundary of the same column
RECURSIVE target_indices_and_boundaries(_, _)
target_indices_and_boundaries(target_expr_and_indices, target_boundaries) ==
    IF target_expr_and_indices = <<>> THEN <<>>
    ELSE
    LET p == Head(target_expr_and_indices)
        c == downcast_ref_Column(p.expr)
        k == IF c = <<>> THEN 0 ELSE FindBound(target_boundaries, c[1])
    IN  (IF k = 0 THEN <<>>
         ELSE <<[index |-> p.index, interval |-> target_boundaries[k].interval]>>)
        \o target_indices_and_boundaries(Tail(target_expr_and_indices), target_boundaries)

\* shrink_boundaries' for_each: every column node overwrites the interval of
\* the first boundary of its column with the graph's interval of the node
RECURSIVE ShrinkLoop(_, _, _)
ShrinkLoop(target_expr_and_indices, g, target_boundaries) ==
    IF target_expr_and_indices = <<>> THEN target_boundaries
    ELSE
    LET p == Head(target_expr_and_indices)
        c == downcast_ref_Column(p.expr)
        k == IF c = <<>> THEN 0 ELSE FindBound(target_boundaries, c[1])
    IN  ShrinkLoop(Tail(target_expr_and_indices), g,
            IF k = 0 THEN target_boundaries
            ELSE [target_boundaries EXCEPT ![k].interval = get_interval(g, p.index)])

\* calculate_selectivity's try_fold over the boundaries from position i on
RECURSIVE TryFold(_, _, _, _)
TryFold(target_boundaries, initial_boundaries, i, acc) ==
    IF i > Len(target_boundaries) THEN Ok(acc)
    ELSE
    LET temp == cardinality_ratio(initial_boundaries[i].interval,
                                  target_boundaries[i].interval)
    IN  IF ~temp.ok THEN Err(temp.err)
        ELSE TryFold(target_boundaries, initial_boundaries, i + 1, FMul(acc, temp.val))

\* try_fold adding the ratios up
RECURSIVE TryFold_sum(_, _, _, _)
TryFold_sum(target_boundaries, initial_boundaries, i, acc) ==
    IF i > Len(target_boundaries) THEN Ok(acc)
    ELSE
    LET temp == cardinality_ratio(initial_boundaries[i].interval,
                                  target_boundaries[i].interval)
    IN  IF ~temp.ok THEN Err(temp.err)
        ELSE TryFold_sum(target_boundaries, initial_boundaries, i + 1,
                Frac(acc.num * temp.val.den + temp.val.num * acc.den,
                     acc.den * temp.val.den))

\* calculate_selectivity with acc + temp
calculate_selectivity_sum(lower_value, upper_value, target_boundaries, initial_boundaries) ==
    IF lower_value = Boolean(1) /\ upper_value = Boolean(1) THEN Ok(One)
    ELSE IF lower_value = Boolean(0) /\ upper_value = Boolean(0) THEN Ok(Zero)
    ELSE TryFold_sum(target_boundaries, initial_boundaries, 1, One)

\* try_fold dividing by the ratios
RECURSIVE TryFold_div(_, _, _, _)
TryFold_div(target_boundaries, initial_boundaries, i, acc) ==
    IF i > Len(target_boundaries) THEN Ok(acc)
    ELSE
    LET temp == cardinality_ratio(initial_boundaries[i].interval,
                                  target_boundaries[i].interval)
    IN  IF ~temp.ok THEN Err(temp.err)
        ELSE TryFold_div(target_boundaries, initial_boundaries, i + 1,
                Frac(acc.num * temp.val.den, acc.den * temp.val.num))

\* calculate_selectivity with acc / temp
calculate_selectivity_div(lower_value, upper_value, target_boundaries, initial_boundaries) ==
    IF lower_value = Boolean(1) /\ upper_value = Boolean(1) THEN Ok(One)
    ELSE IF lower_value = Boolean(0) /\ upper_value = Boolean(0) THEN Ok(Zero)
    ELSE TryFold_div(target_boundaries, initial_boundaries, 1, One)

\* calculate_selectivity without the early exit on an exact root
calculate_selectivity_no_early_exit(lower_value, upper_value, target_boundaries, initial_boundaries) ==
    TryFold(target_boundaries, initial_boundaries, 1, One)

\* calculate_selectivity folding from the second boundary on
calculate_selectivity_skip_first(lower_value, upper_value, target_boundaries, initial_boundaries) ==
    IF lower_value = Boolean(1) /\ upper_value = Boolean(1) THEN Ok(One)
    ELSE IF lower_value = Boolean(0) /\ upper_value = Boolean(0) THEN Ok(Zero)
    ELSE TryFold(target_boundaries, initial_boundaries, 2, One)

\* calculate_selectivity
calculate_selectivity(lower_value, upper_value, target_boundaries, initial_boundaries) ==
    IF lower_value = Boolean(1) /\ upper_value = Boolean(1) THEN Ok(One)
    ELSE IF lower_value = Boolean(0) /\ upper_value = Boolean(0) THEN Ok(Zero)
    ELSE TryFold(target_boundaries, initial_boundaries, 1, One)

\* shrink_boundaries falling back to selectivity 1.0 when the root is no
\* node of the graph
shrink_boundaries_default_on_missing_root(e, g, target_boundaries, target_expr_and_indices) ==
    LET initial_boundaries == target_boundaries
        shrunk == ShrinkLoop(target_expr_and_indices, g, target_boundaries)
        graph_nodes == gather_node_indices(g, <<e>>)
    IN  IF graph_nodes = <<>> THEN Ok(with_selectivity(new(shrunk), One))
        ELSE
        LET root_index == graph_nodes[1].index
            final_result == get_interval(g, root_index)
            selectivity == calculate_selectivity(final_result.lower.value,
                                                 final_result.upper.value,
                                                 shrunk, initial_boundaries)
        IN  IF ~selectivity.ok THEN Err(selectivity.err)
            ELSE Ok(with_selectivity(new(shrunk), selectivity.val))

\* shrink_boundaries
shrink_boundaries(e, g, target_boundaries, target_expr_and_indices) ==
    LET initial_boundaries == target_boundaries
        shrunk == ShrinkLoop(target_expr_and_indices, g, target_boundaries)
        graph_nodes == gather_node_indices(g, <<e>>)
    IN  IF graph_nodes = <<>> THEN Err("internal: graph has no nodes")
        ELSE
        LET root_index == graph_nodes[1].index
            final_result == get_interval(g, root_index)
            selectivity == calculate_selectivity(final_result.lower.value,
                                                 final_result.upper.value,
                                                 shrunk, initial_boundaries)
        IN  IF ~selectivity.ok THEN Err(selectivity.err)
            ELSE Ok(with_selectivity(new(shrunk), selectivity.val))

\* the seeds analyze hands to update_ranges
SeedsOf(e, context, g) ==
    target_indices_and_boundaries(gather_node_indices(g, collect_columns(e)),
                                  context.boundaries)

\* analyze treating Infeasible like Success
analyze_infeasible_shrinks(e, context, eng) ==
    LET target_boundaries == context.boundaries
        built_graph == try_new(e, eng.try_new)
    IN  IF ~built_graph.ok THEN Err(built_graph.err)
        ELSE
        LET target_expr_and_indices ==
                gather_node_indices(built_graph.val, collect_columns(e))
            seeds == target_indices_and_boundaries(target_expr_and_indices,
                                                   target_boundaries)
            propagated == update_ranges(built_graph.val, seeds, eng.choice)
        IN  IF ~propagated.ok THEN Err(propagated.err)
            ELSE IF propagated.val.result = "Success"
            THEN shrink_boundaries(e, propagated.val.graph, target_boundaries,
                                   target_expr_and_indices)
            ELSE IF propagated.val.result = "Infeasible"
            THEN shrink_boundaries(e, propagated.val.graph, target_boundaries,
                                   target_expr_and_indices)
            ELSE Ok(with_selectivity(new(target_boundaries), One))

\* analyze with the selectivities of the two failure arms swapped
analyze_arms_swapped(e, context, eng) ==
    LET target_boundaries == context.boundaries
        built_graph == try_new(e, eng.try_new)
    IN  IF ~built_graph.ok THEN Err(built_graph.err)
        ELSE
        LET target_expr_and_indices ==
                gather_node_indices(built_graph.val, collect_columns(e))
            seeds == target_indices_and_boundaries(target_expr_and_indices,
                                                   target_boundaries)
            propagated == update_ranges(built_graph.val, seeds, eng.choice)
        IN  IF ~propagated.ok THEN Err(propagated.err)
            ELSE IF propagated.val.result = "Success"
            THEN shrink_boundaries(e, propagated.val.graph, target_boundaries,
                                   target_expr_and_indices)
            ELSE IF propagated.val.result = "Infeasible"
            THEN Ok(with_selectivity(new(target_boundaries), One))
            ELSE Ok(with_selectivity(new(target_boundaries), Zero))

\* analyze; eng = [try_new, choice] is what the interval engine answers
analyze(e, context, eng) ==
    LET target_boundaries == context.boundaries
        built_graph == try_new(e, eng.try_new)
    IN  IF ~built_graph.ok THEN Err(built_graph.err)
        ELSE
        LET target_expr_and_indices ==
                gather_node_indices(built_graph.val, collect_columns(e))
            seeds == target_indices_and_boundaries(target_expr_and_indices,
                                                   target_boundaries)
            propagated == update_ranges(built_graph.val, seeds, eng.choice)
        IN  IF ~propagated.ok THEN Err(propagated.err)
            ELSE IF propagated.val.result = "Success"
            THEN shrink_boundaries(e, propagated.val.graph, target_boundaries,
                                   target_expr_and_indices)
            ELSE IF propagated.val.result = "Infeasible"
            THEN Ok(with_selectivity(new(target_boundaries), Zero))
            ELSE Ok(with_selectivity(new(target_boundaries), One))

----------------------------------------------------------------------------
(* Inputs *)

DataTypes == {"Int32", "Utf8", "Unsupported"}

\* min / max statistics of an Int32 column: each a value or absent
MinValues == {Absent} \cup {Exact(Int32(v)) : v \in Values}
MaxValues == {Absent} \cup {Inexact(Int32(v)) : v \in Values}

\* the distinct count reported next to a min and a max: exact (the size of
\* the range) when both are known, an estimate when one is, absent when
\* neither is
DistinctCountOf(mn, mx) ==
    IF mn = Absent /\ mx = Absent THEN Absent
    ELSE IF mn = Absent THEN Inexact(mx.v.v + 1)
    ELSE IF mx = Absent THEN Inexact(mn.v.v + 1)
    ELSE Exact(mx.v.v - mn.v.v + 1)

\* the statistics of one column of the given data type: any min <= max, each
\* possibly absent, for an Int32 column; no min / max for the other types
ColumnStatisticsOf(data_type) ==
    IF data_type = "Int32"
    THEN {[min_value |-> p[1], max_value |-> p[2],
           distinct_count |-> DistinctCountOf(p[1], p[2])] :
            p \in {q \in MinValues \X MaxValues :
                    q[1] = Absent \/ q[2] = Absent \/ q[1].v.v <= q[2].v.v}}
    ELSE {[min_value |-> Absent, max_value |-> Absent, distinct_count |-> Absent]}

\* statistics of m columns, typed by the schema where it has the column
RECURSIVE StatisticsOf(_, _)
StatisticsOf(fields, m) ==
    IF m = 0 THEN {<<>>}
    ELSE {rest \o <<st>> :
            rest \in StatisticsOf(fields, m - 1),
            st \in ColumnStatisticsOf(IF m <= Len(fields) THEN fields[m].data_type
                                      ELSE "Int32")}

\* column references a predicate may hold: every field at its own ordinal,
\* and the first field's name at the second ordinal (for the first column
\* the name without the ordinal, for the second the ordinal without the name)
Candidates ==
    {Column_new(Names[i], i - 1) : i \in 1..MaxCols} \cup {Column_new(Names[1], 1)}

\* predicates: a comparison of literals (no column), a comparison on one
\* column, a comparison or conjunction over two columns.  columns lists the
\* distinct column references in the order collect_columns' HashSet yields
\* them, which is any order
Predicates ==
    {[kind |-> "Predicate", columns |-> cs] :
        cs \in {<<>>} \cup {<<c>> : c \in Candidates}
               \cup {<<p[1], p[2]>> : p \in {q \in Candidates \X Candidates : q[1] # q[2]}}}

\* closed Int32 intervals with lower <= upper, a bound possibly unknown
Bounds == {Int32None} \cup {Int32(v) : v \in Values}
Intervals ==
    {Interval_new(new_closed(lo), new_closed(hi)) : <<lo, hi>> \in
        {<<a, b>> \in Bounds \X Bounds : ~a.some \/ ~b.some \/ a.v <= b.v}}

\* iv contains jv (an unknown bound is infinite)
Contains(iv, jv) ==
    /\ ~iv.lower.value.some
       \/ (jv.lower.value.some /\ iv.lower.value.v <= jv.lower.value.v)
    /\ ~iv.upper.value.some
       \/ (jv.upper.value.some /\ jv.upper.value.v <= iv.upper.value.v)

\* iv with its unknown bounds set to the ends of the value range
Clipped(iv) ==
    Interval_new(
        IF iv.lower.value.some THEN iv.lower ELSE new_closed(Int32(0)),
        IF iv.upper.value.some THEN iv.upper ELSE new_closed(Int32(MaxVal)))

\* intervals propagation may leave on a node seeded with iv: iv itself; any
\* interval inside a bounded iv; the range-clipped iv when a bound is unknown
Refinements(iv) ==
    {iv} \cup (IF iv.lower.value.type # "Int32" THEN {}
               ELSE IF iv.lower.value.some /\ iv.upper.value.some
               THEN {jv \in Intervals : Contains(iv, jv)}
               ELSE {Clipped(iv)})

\* intervals propagation may leave on the root
RootIntervals ==
    {Interval_new(new_closed(Boolean(lo)), new_closed(Boolean(hi))) :
        <<lo, hi>> \in {<<1, 1>>, <<0, 0>>, <<0, 1>>}}

\* interval assignments propagation may leave on nodes from..Len(nodes):
\* a refinement on a seeded column node, no change on the others
RECURSIVE Narrowings(_, _, _)
Narrowings(nodes, seeded, from) ==
    IF from > Len(nodes) THEN {<<>>}
    ELSE {<<iv>> \o rest :
            iv \in (IF from \in seeded THEN Refinements(nodes[from].interval)
                    ELSE {nodes[from].interval}),
            rest \in Narrowings(nodes, seeded, from + 1)}

\* what update_ranges may answer on graph g seeded with seeds
Choices(g, seeds) ==
    LET s == Seeded(g, seeds)
        unchanged == [n \in 1..Len(s.nodes) |-> s.nodes[n].interval]
        seeded == {seeds[k].index + 1 : k \in 1..Len(seeds)}
    IN  {[result |-> r, intervals |-> unchanged] :
            r \in {"Err", "Infeasible", "CannotPropagate"}}
        \cup
        {[result |-> "Success", intervals |-> <<root>> \o cols] :
            root \in RootIntervals, cols \in Narrowings(s.nodes, seeded, 2)}

\* what the interval engine may answer while analyze(e, context) runs
Engines(e, context) ==
    LET g == try_new(e, "Ok").val
        seeds == SeedsOf(e, context, g)
        quiet == [n \in 1..Len(g.nodes) |-> Seeded(g, seeds).nodes[n].interval]
    IN  {[try_new |-> "Err", choice |-> [result |-> "Err", intervals |-> quiet]]}
        \cup {[try_new |-> "Ok", choice |-> c] : c \in Choices(g, seeds)}
        \cup {[try_new |-> "Defective",
              choice |-> [result |-> "Success", intervals |-> quiet]]}

----------------------------------------------------------------------------
(* The state machine: a caller builds a context from statistics, then      *)
(* analyses a predicate against it                                         *)

NotCalled == Err("not called")
NoPredicate == [kind |-> "Predicate", columns |-> <<>>]
NoEngine == [try_new |-> "Err", choice |-> [result |-> "Err", intervals |-> <<>>]]

Init ==
    /\ pc = "start"
    /\ \E n \in 0..MaxCols, m \in 0..MaxCols :
        /\ \E dts \in [1..n -> DataTypes] :
            schema = [i \in 1..n |-> [name |-> Names[i], data_type |-> dts[i]]]
        /\ statistics \in StatisticsOf(schema, m)
    /\ expr = NoPredicate
    /\ built = NotCalled
    /\ engine = NoEngine
    /\ analyzed = NotCalled

\* the caller calls AnalysisContext::try_from_statistics
TryFromStatistics ==
    /\ pc = "start"
    /\ pc' = "built"
    /\ built' = try_from_statistics(schema, statistics)
    /\ UNCHANGED <<schema, statistics, expr, engine, analyzed>>

\* the caller calls analyze with a predicate and the context it built
Analyze ==
    /\ pc = "built"
    /\ built.ok
    /\ \E e \in Predicates :
        \E eng \in Engines(e, built.val) :
            /\ expr' = e
            /\ engine' = eng
            /\ analyzed' = analyze(e, built.val, eng)
    /\ pc' = "analyzed"
    /\ UNCHANGED <<schema, statistics, built>>

Next == TryFromStatistics \/ Analyze

Spec == Init /\ [][Next]_vars

----------------------------------------------------------------------------
(* Vocabulary of the properties *)

\* analyze has returned
Analyzed == pc = "analyzed"

\* the context analyze was given
InputContext == built.val

\* the PropagationResult update_ranges reported, "none" when analyze failed
\* before it got one
Propagation ==
    IF Analyzed /\ engine.try_new # "Err" /\ engine.choice.result # "Err"
    THEN engine.choice.result ELSE "none"

\* propagation succeeded on a graph that holds the predicate as its root
Succeeded == Propagation = "Success" /\ engine.try_new = "Ok"

\* the root node's final interval
RootInterval == engine.choice.intervals[1]

RootIs(b) ==
    /\ RootInterval.lower.value = Boolean(b)
    /\ RootInterval.upper.value = Boolean(b)

RootIsSingleton == RootIs(1) \/ RootIs(0)

\* the graph nodes that are a reference to the column of boundary b: name and
\* ordinal both equal
NodesOf(b) ==
    {n \in 2..Len(engine.choice.intervals) :
        /\ expr.columns[n - 1].name = b.column.name
        /\ expr.columns[n - 1].index = b.column.index}

\* the cardinality ratio of column i between the input and the returned context
RatioAt(i) ==
    cardinality_ratio(InputContext.boundaries[i].interval,
                      analyzed.val.boundaries[i].interval)

\* product of the ratios of the columns in S
RECURSIVE ProductOver(_, _)
ProductOver(ratio, S) ==
    IF S = {} THEN One
    ELSE LET i == CHOOSE x \in S : TRUE
         IN  FMul(ProductOver(ratio, S \ {i}), ratio[i].val)

Half == [num |-> 1, den |-> 2]
Quarter == [num |-> 1, den |-> 4]

----------------------------------------------------------------------------
(* Properties *)

\* C1: whenever analyze returns a context, its selectivity is set and lies in
\* [0, 1], whatever the propagation outcome and the number of columns
C1_SelectivityInUnitRange ==
    (Analyzed /\ analyzed.ok) =>
        /\ analyzed.val.selectivity # <<>>
        /\ LET s == analyzed.val.selectivity[1]
           IN  /\ s.den > 0
               /\ 0 <= s.num
               /\ s.num <= s.den

\* a two-column context analysed with success to a selectivity strictly
\* between 0 and 1
C1_Witness ==
    /\ Succeeded /\ analyzed.ok
    /\ Len(analyzed.val.boundaries) = 2
    /\ analyzed.val.selectivity # <<>>
    /\ analyzed.val.selectivity[1] \notin {Zero, One}

\* C2: on Infeasible, analyze returns the input boundaries unchanged and
\* selectivity exactly 0.0
C2_InfeasibleKeepsBoundaries ==
    Propagation = "Infeasible" =>
        /\ analyzed.ok
        /\ analyzed.val.boundaries = InputContext.boundaries
        /\ analyzed.val.selectivity = <<Zero>>

\* Infeasible reported on a graph with a seeded column node
C2_Witness ==
    /\ Propagation = "Infeasible"
    /\ analyzed.ok
    /\ \E i \in 1..Len(InputContext.boundaries) : NodesOf(InputContext.boundaries[i]) # {}

\* C3: on CannotPropagate, analyze returns the input boundaries unchanged and
\* selectivity exactly 1.0
C3_CannotPropagateKeepsBoundaries ==
    Propagation = "CannotPropagate" =>
        /\ analyzed.ok
        /\ analyzed.val.boundaries = InputContext.boundaries
        /\ analyzed.val.selectivity = <<One>>

\* CannotPropagate reported on a graph with a seeded column node
C3_Witness ==
    /\ Propagation = "CannotPropagate"
    /\ analyzed.ok
    /\ \E i \in 1..Len(InputContext.boundaries) : NodesOf(InputContext.boundaries[i]) # {}

\* C4: on Success, a root interval [true, true] gives selectivity exactly 1.0
\* and [false, false] exactly 0.0, whatever happened to the column intervals
C4_BooleanRootShortCircuit ==
    Succeeded =>
        /\ RootIs(1) => (analyzed.ok /\ analyzed.val.selectivity = <<One>>)
        /\ RootIs(0) => (analyzed.ok /\ analyzed.val.selectivity = <<Zero>>)

\* the root is [true, true] although a column was narrowed to half its values
C4_Witness ==
    /\ Succeeded /\ RootIs(1) /\ analyzed.ok
    /\ \E i \in 1..Len(analyzed.val.boundaries) : RatioAt(i) = Ok(Half)

\* C5: on Success the returned boundaries are the input boundaries with the
\* interval of every boundary whose column (name and ordinal) is referenced
\* by the predicate replaced by the graph's interval of that node; nothing
\* else changes, and a partial match is no error
C5_ShrinkReplacesMatchedIntervals ==
    Succeeded =>
        /\ (\A i \in 1..Len(InputContext.boundaries) :
                InputContext.boundaries[i].interval.lower.value.type = "Int32")
            => analyzed.ok
        /\ analyzed.ok =>
            /\ Len(analyzed.val.boundaries) = Len(InputContext.boundaries)
            /\ \A i \in 1..Len(InputContext.boundaries) :
                LET old == InputContext.boundaries[i]
                    now == analyzed.val.boundaries[i]
                IN  /\ now.column = old.column
                    /\ now.distinct_count = old.distinct_count
                    /\ \A n \in NodesOf(old) : now.interval = engine.choice.intervals[n]
                    /\ NodesOf(old) = {} => now.interval = old.interval

\* the predicate references one boundary's column and, under the name of
\* another boundary, a wrong ordinal: the first boundary is narrowed, the
\* second is not
C5_Witness ==
    /\ Succeeded /\ analyzed.ok
    /\ Len(InputContext.boundaries) = 2
    /\ \E i, j \in 1..2 :
        /\ i # j
        /\ NodesOf(InputContext.boundaries[i]) # {}
        /\ analyzed.val.boundaries[i].interval # InputContext.boundaries[i].interval
        /\ NodesOf(InputContext.boundaries[j]) = {}
        /\ \E k \in 1..Len(expr.columns) :
            /\ expr.columns[k].name = InputContext.boundaries[j].column.name
            /\ expr.columns[k].index # InputContext.boundaries[j].column.index

\* C6: on Success with a root that is no boolean singleton, the selectivity
\* is the product over all columns of the cardinality ratio between the
\* original and the refined interval; columns of ratio 1 do not count, and
\* two columns of ratio 1/2 give 1/4
C6_SelectivityIsProductOfRatios ==
    (Succeeded /\ ~RootIsSingleton /\ analyzed.ok) =>
        LET n == Len(analyzed.val.boundaries)
            ratio == [i \in 1..n |-> RatioAt(i)]
            selectivity == analyzed.val.selectivity[1]
        IN  /\ \A i \in 1..n : ratio[i].ok
            /\ \A i \in 1..n :
                (\/ NodesOf(InputContext.boundaries[i]) = {}
                 \/ analyzed.val.boundaries[i].interval = InputContext.boundaries[i].interval)
                    => ratio[i].val = One
            /\ selectivity = ProductOver(ratio, 1..n)
            /\ selectivity = ProductOver(ratio, {i \in 1..n : ratio[i].val # One})
            /\ (n = 2 /\ ratio[1].val = Half /\ ratio[2].val = Half)
                    => selectivity = Quarter

\* two columns, each narrowed to half of its values, under an open root
C6_Witness ==
    /\ Succeeded /\ ~RootIsSingleton /\ analyzed.ok
    /\ Len(analyzed.val.boundaries) = 2
    /\ RatioAt(1) = Ok(Half) /\ RatioAt(2) = Ok(Half)
    /\ analyzed.val.selectivity = <<Quarter>>

\* C7: for a schema and statistics of equal length, try_from_statistics
\* returns one boundary per schema column, in schema order, the i-th for
\* column (name of field i, ordinal i), with selectivity unset, also when
\* every statistic is absent
C7_OneBoundaryPerSchemaColumn ==
    (pc # "start" /\ Len(statistics) = Len(schema)) =>
        /\ (\A i \in 1..Len(schema) : schema[i].data_type # "Unsupported") => built.ok
        /\ built.ok =>
            /\ Len(built.val.boundaries) = Len(schema)
            /\ \A i \in 1..Len(schema) :
                /\ built.val.boundaries[i].column.name = schema[i].name
                /\ built.val.boundaries[i].column.index = i - 1
            /\ built.val.selectivity = <<>>

\* a context of two columns built from statistics with nothing known of the
\* first column
C7_Witness ==
    /\ pc # "start" /\ built.ok
    /\ Len(schema) = 2 /\ Len(statistics) = 2
    /\ Len(built.val.boundaries) = 2
    /\ statistics[1].min_value = Absent
    /\ statistics[1].max_value = Absent
    /\ statistics[1].distinct_count = Absent

\* C8: try_from_column builds a closed interval from the min value (else the
\* data type's null) and the max value (else the same null), each bound on
\* its own, and copies the distinct count
C8_BoundaryFromStatistics ==
    (pc # "start" /\ built.ok) =>
        \A i \in 1..Len(built.val.boundaries) :
            LET st == statistics[i]
                b == built.val.boundaries[i]
                null == IF schema[i].data_type = "Int32" THEN Int32None ELSE Utf8None
            IN  /\ ~b.interval.lower.open
                /\ ~b.interval.upper.open
                /\ b.interval.lower.value =
                        (IF st.min_value.tag = "Absent" THEN null ELSE st.min_value.v)
                /\ b.interval.upper.value =
                        (IF st.max_value.tag = "Absent" THEN null ELSE st.max_value.v)
                /\ b.distinct_count = st.distinct_count

\* a column with a min but no max, and one with a max but no min
C8_Witness ==
    /\ pc # "start" /\ built.ok
    /\ \E i, j \in 1..Len(built.val.boundaries) :
        /\ statistics[i].min_value.tag = "Exact"
        /\ statistics[i].max_value.tag = "Absent"
        /\ statistics[i].distinct_count.tag = "Inexact"
        /\ built.val.boundaries[i].interval.lower.value.some
        /\ ~built.val.boundaries[i].interval.upper.value.some
        /\ statistics[j].min_value.tag = "Absent"
        /\ statistics[j].max_value.tag = "Inexact"

\* C9: in the general case the selectivity does not grow when one column's
\* refined interval is replaced by an interval inside it, all else equal
C9_SelectivityMonotone ==
    (Succeeded /\ ~RootIsSingleton /\ analyzed.ok) =>
        LET refined == analyzed.val.boundaries
            initial == InputContext.boundaries
            lower_value == RootInterval.lower.value
            upper_value == RootInterval.upper.value
            selectivity == analyzed.val.selectivity[1]
        IN  \A i \in 1..Len(refined) :
                \A jv \in {kv \in Intervals : Contains(refined[i].interval, kv)} :
                    LET narrower == calculate_selectivity(lower_value, upper_value,
                                        [refined EXCEPT ![i].interval = jv], initial)
                    IN  /\ narrower.ok
                        /\ FLeq(narrower.val, selectivity)

\* a returned column interval that has a strictly narrower interval of
\* strictly smaller selectivity
C9_Witness ==
    /\ Succeeded /\ ~RootIsSingleton /\ analyzed.ok
    /\ \E i \in 1..Len(analyzed.val.boundaries) :
        \E jv \in Intervals :
            /\ Contains(analyzed.val.boundaries[i].interval, jv)
            /\ jv # analyzed.val.boundaries[i].interval
            /\ LET narrower == calculate_selectivity(
                        RootInterval.lower.value, RootInterval.upper.value,
                        [analyzed.val.boundaries EXCEPT ![i].interval = jv],
                        InputContext.boundaries)
               IN  /\ narrower.ok
                   /\ narrower.val # analyzed.val.selectivity[1]

\* C10: analyze returns the error, and no context, when graph construction
\* or propagation fails or a cardinality ratio cannot be computed, and an
\* internal error when the predicate is no node of the propagated graph
C10_ErrorsAreSurfaced ==
    Analyzed =>
        /\ engine.try_new = "Err"
            => (~analyzed.ok /\ analyzed.err = "graph construction")
        /\ (engine.try_new # "Err" /\ engine.choice.result = "Err")
            => (~analyzed.ok /\ analyzed.err = "propagation")
        /\ (Propagation = "Success" /\ engine.try_new = "Defective")
            => (~analyzed.ok /\ analyzed.err = "internal: graph has no nodes")
        /\ (/\ Succeeded /\ ~RootIsSingleton
            /\ \E i \in 1..Len(InputContext.boundaries) :
                InputContext.boundaries[i].interval.lower.value.type # "Int32")
            => (~analyzed.ok /\ analyzed.err = "cardinality")

\* propagation succeeded on a graph without the predicate, over a context
\* with columns the predicate references
C10_Witness ==
    /\ Propagation = "Success" /\ engine.try_new = "Defective"
    /\ ~analyzed.ok
    /\ \E i \in 1..Len(InputContext.boundaries) : NodesOf(InputContext.boundaries[i]) # {}

====
